---- MODULE Spec2Model ----
(***************************************************************************)
(* Trend Plotter: the date-format heuristics of utils.py                   *)
(* (is_valid_time_series, detect_date_format) and the upload workflow of   *)
(* main.py that calls them and keeps the accepted tables in the session    *)
(* store.                                                                  *)
(*                                                                         *)
(* A column is a sequence of cells.  A cell is either NULL (a missing      *)
(* value, dropped by dropna) or a text of the finite set Text below.  Each *)
(* text is given with its lexical structure (Lex): its maximal digit runs, *)
(* punctuation and words, in order.  dateutil's parser and the regular     *)
(* expression \d+ are both computed from that structure.                   *)
(***************************************************************************)
EXTENDS Integers, Sequences, FiniteSets, TLC

VARIABLES
    column,          \* the column handed to the two functions of utils.py
    origin,          \* the column as first given, before any row shuffle
    valid,           \* outcome of is_valid_time_series(column)
    detected,        \* outcome of detect_date_format(column)
    uploaded_files,  \* the files held by the st.file_uploader widget
    force_dayfirst,  \* the "Force Day-first format" checkbox
    dataframes,      \* st.session_state.dataframes: file name -> table
    event,           \* the user interaction that triggered the last rerun
    mixed_tz_raises  \* whether the installed pandas rejects a column mixing
                     \* timezone-aware and timezone-naive values

vars == <<column, origin, valid, detected, uploaded_files, force_dayfirst,
          dataframes, event, mixed_tz_raises>>

coreVars == <<column, origin, valid, detected>>
appVars == <<uploaded_files, force_dayfirst, dataframes, event, mixed_tz_raises>>

----------------------------------------------------------------------------
(* Bounds of the model and constants of the program *)

\* longest column drawn from every text of DetectText
MaxLen == 3
\* longest column drawn from ValidatorText (beyond the 5-entry sample)
MaxRows == 6
\* longest column whose rows are shuffled
MaxShuffleLen == 3
\* most files the uploader widget holds at once
MaxUploads == 2

\* head(50) in detect_date_format
DetectSample == 50
\* head(5) in is_valid_time_series
ValidSample == 5

----------------------------------------------------------------------------
(* Texts and their lexical structure *)

\* a missing value (NaN / None), removed by dropna()
NULL == "<NA>"

D(n) == [t |-> "d", n |-> n, s |-> ""]
P(s) == [t |-> "p", n |-> 0, s |-> s]
W(s) == [t |-> "w", n |-> 0, s |-> s]

SlashDate(a, b, y) == <<D(a), P("/"), D(b), P("/"), D(y)>>
DashDate(y, a, b) == <<D(y), P("-"), D(a), P("-"), D(b)>>
\* " 00:00+00:00": a time of day followed by a UTC offset
UtcMidnight == <<P(" "), D(0), P(":"), D(0), P("+"), D(0), P(":"), D(0)>>

\* the token sequence of each text: digit runs D (leading zeros dropped, as
\* int() does), punctuation P, alphabetic words W
Lex(s) ==
    CASE s = "01/02/2023" -> SlashDate(1, 2, 2023)
      [] s = "02/01/2023" -> SlashDate(2, 1, 2023)
      [] s = "15/02/2023" -> SlashDate(15, 2, 2023)
      [] s = "03/25/2023" -> SlashDate(3, 25, 2023)
      [] s = "13/13/2023" -> SlashDate(13, 13, 2023)
      [] s = "2023-01-01" -> DashDate(2023, 1, 1)
      [] s = "2023-01-03" -> DashDate(2023, 1, 3)
      [] s = "2023-02-01" -> DashDate(2023, 2, 1)
      [] s = "2023-13-05" -> DashDate(2023, 13, 5)
      [] s = "2023-01-02 00:00+00:00" -> DashDate(2023, 1, 2) \o UtcMidnight
      [] s = "row 15 7" -> <<W("row"), P(" "), D(15), P(" "), D(7)>>
      [] s = "abc" -> <<W("abc")>>

DetectText ==
    {"01/02/2023", "02/01/2023", "15/02/2023", "03/25/2023", "13/13/2023",
     "2023-01-01", "2023-01-03", "2023-02-01", "2023-13-05",
     "2023-01-02 00:00+00:00", "row 15 7", "abc"}

ValidatorText == {"2023-01-01", "abc"}

ShuffleText == {"01/02/2023", "02/01/2023", "15/02/2023", "03/25/2023"}

LongBase == {"01/02/2023", "02/01/2023"}

Text == DetectText

SeqsUpTo(S, n) == UNION {[1..k -> S] : k \in 0..n}

Repeat(c, n) == [i \in 1..n |-> c]

DetectColumns == SeqsUpTo(DetectText \cup {NULL}, MaxLen)
ValidatorColumns == SeqsUpTo(ValidatorText \cup {NULL}, MaxRows)
\* columns longer than the 50-entry sample: 50 equal rows and one more
LongColumns ==
    {Repeat(c, DetectSample) \o <<t>> : c \in LongBase, t \in DetectText}

Columns == DetectColumns \cup ValidatorColumns \cup LongColumns

----------------------------------------------------------------------------
(* dateutil.parser.parse(text, dayfirst=..., fuzzy=False), as the two       *)
(* functions of utils.py call it, on the texts of Text: a date of three    *)
(* numbers joined by "-" or "/", with a four-digit year first or last,     *)
(* optionally followed by a time of day and a UTC offset.  Any other token *)
(* (a word) makes the non-fuzzy parser raise, which the callers' bare      *)
(* except turns into a failure.                                            *)

Min(a, b) == IF a <= b THEN a ELSE b

\* a parse outcome: a date-time, or the failure marker (ok = FALSE)
Failure == [ok |-> FALSE, y |-> 0, m |-> 0, d |-> 0, aware |-> FALSE]
DateTime(y, m, d, aware) == [ok |-> TRUE, y |-> y, m |-> m, d |-> d, aware |-> aware]

IsLeap(y) == (y % 4 = 0 /\ y % 100 # 0) \/ y % 400 = 0

DaysIn(y, m) ==
    IF m = 2 THEN (IF IsLeap(y) THEN 29 ELSE 28)
    ELSE IF m \in {4, 6, 9, 11} THEN 30 ELSE 31

\* the parser's resolution of three numbers into <<year, month, day>>: a
\* number of more than two digits is the year; with the year first the rest
\* reads month-day unless dayfirst and the last number can be a month; with
\* the year last the first number is the day when it exceeds 12 or when
\* dayfirst and the second number can be a month
resolve_ymd(n1, n2, n3, dayfirst) ==
    IF n1 > 31 \/ n1 >= 100
    THEN IF dayfirst /\ n3 <= 12 THEN <<n1, n3, n2>> ELSE <<n1, n2, n3>>
    ELSE IF n1 > 12 \/ (dayfirst /\ n2 <= 12) THEN <<n3, n2, n1>>
    ELSE <<n3, n1, n2>>

\* tokens 6.. of a text: nothing, or " HH:MM+HH:MM"
IsTimeWithOffset(rest) ==
    /\ Len(rest) = 8
    /\ rest[1] = P(" ") /\ rest[3] = P(":") /\ rest[5] = P("+") /\ rest[7] = P(":")
    /\ rest[2].t = "d" /\ rest[4].t = "d" /\ rest[6].t = "d" /\ rest[8].t = "d"
    /\ rest[2].n <= 23 /\ rest[4].n <= 59
    \* every offset of Text is +00:00: an aware value is its wall time in UTC
    /\ rest[6].n = 0 /\ rest[8].n = 0

\* a calendar date or the failure marker, as datetime() accepts or rejects it
build(ymd, aware) ==
    IF ymd[2] < 1 \/ ymd[2] > 12 THEN Failure
    ELSE IF ymd[3] < 1 \/ ymd[3] > DaysIn(ymd[1], ymd[2]) THEN Failure
    ELSE DateTime(ymd[1], ymd[2], ymd[3], aware)

IsDateShape(toks) ==
    /\ Len(toks) >= 5
    /\ toks[1].t = "d" /\ toks[3].t = "d" /\ toks[5].t = "d"
    /\ toks[2].t = "p" /\ toks[2].s \in {"-", "/"}
    /\ toks[4] = toks[2]
    /\ Len(toks) > 5 => IsTimeWithOffset(SubSeq(toks, 6, Len(toks)))
    \* exactly one number of more than two digits: the year
    /\ Cardinality({i \in {1, 3, 5} : toks[i].n >= 100}) = 1

parse_tokens(toks, dayfirst) ==
    IF ~IsDateShape(toks) THEN Failure
    ELSE build(resolve_ymd(toks[1].n, toks[3].n, toks[5].n, dayfirst), Len(toks) > 5)

parse(text, dayfirst) == parse_tokens(Lex(text), dayfirst)

\* re.findall(r'\d+', text) followed by int(): the digit runs, in order
RECURSIVE DigitRuns(_)
DigitRuns(toks) ==
    IF toks = <<>> THEN <<>>
    ELSE IF Head(toks).t = "d" THEN <<Head(toks).n>> \o DigitRuns(Tail(toks))
    ELSE DigitRuns(Tail(toks))

findall_digits(text) == DigitRuns(Lex(text))

\* the position of a date-time on the calendar (every time of day is 00:00)
Ordinal(dt) == (dt.y * 12 + (dt.m - 1)) * 31 + (dt.d - 1)

\* Python's datetime a > b: "raise" (TypeError) when exactly one is aware
GreaterThan(a, b) ==
    IF a.aware # b.aware THEN "raise"
    ELSE IF Ordinal(a) > Ordinal(b) THEN "True" ELSE "False"

----------------------------------------------------------------------------
(* utils.py *)

dropna(col) == SelectSeq(col, LAMBDA c : c # NULL)

head(seq, n) == SubSeq(seq, 1, Min(n, Len(seq)))

\* the loop of is_valid_time_series: the number of sample texts that parse
RECURSIVE count_valid(_)
count_valid(sample) ==
    IF sample = <<>> THEN 0
    ELSE (IF parse(Head(sample), FALSE).ok THEN 1 ELSE 0) + count_valid(Tail(sample))

\* the sample of is_valid_time_series
valid_sample(col) == head(dropna(col), ValidSample)

\* the last line: valid_dates / len(sample) >= 0.8 if len(sample) > 0
valid_ratio(valid_dates, n) ==
    IF n > 0 THEN (IF valid_dates * 10 >= 8 * n THEN "True" ELSE "False")
    ELSE "False"

\* is_valid_time_series with the last comparison strict (> 0.8)
is_valid_time_series_strict(col) ==
    IF Len(col) = 0 THEN "False"
    ELSE IF Len(dropna(col)) * 10 < Len(col) * 8 THEN "False"
    ELSE IF Len(valid_sample(col)) = 0 THEN "False"
    ELSE IF count_valid(valid_sample(col)) * 10 > 8 * Len(valid_sample(col)) THEN "True"
    ELSE "False"

\* outcome "True" / "False" ("raise" would be an escaping exception)
is_valid_time_series(col) ==
    IF Len(col) = 0 THEN "False"
    ELSE IF Len(dropna(col)) * 10 < Len(col) * 8 THEN "False"
    ELSE valid_ratio(count_valid(valid_sample(col)), Len(valid_sample(col)))

\* the sample of detect_date_format
detect_sample(col) == head(dropna(col), DetectSample)

\* dayfirst_result / monthfirst_result: one outcome per sampled text, a
\* failure (None) where the parser raised
parsed_result(sample, dayfirst) ==
    [i \in 1..Len(sample) |-> parse(sample[i], dayfirst)]

\* dayfirst_valid / monthfirst_valid: the None entries filtered out
parsed_valid(sample, dayfirst) ==
    SelectSeq(parsed_result(sample, dayfirst), LAMBDA r : r.ok)

\* the nested function is_ordered: the loop stops at the first pair whose
\* comparison is not False: out of order returns False, and a pair that
\* cannot be compared raises
first_stop(date_list) ==
    LET stop == {i \in 1..(Len(date_list) - 1) :
                    GreaterThan(date_list[i], date_list[i + 1]) # "False"}
    IN  IF stop = {} THEN 0 ELSE CHOOSE x \in stop : \A z \in stop : x <= z

ordered_at(date_list, i) ==
    IF i = 0 THEN "True"
    ELSE IF GreaterThan(date_list[i], date_list[i + 1]) = "raise" THEN "raise"
    ELSE "False"

is_ordered(date_list) == ordered_at(date_list, first_stop(date_list))

\* the evidence a text with these digit runs adds: <<day-first, month-first>>
points(numbers) ==
    IF Len(numbers) >= 2
    THEN IF numbers[1] > 12 THEN <<2, 0>>
         ELSE IF numbers[2] > 12 THEN <<0, 2>>
         ELSE IF numbers[1] > numbers[2] THEN <<1, 0>>
         ELSE <<0, 0>>
    ELSE <<0, 0>>

evidence_of(text) == points(findall_digits(text))

add_evidence(a, b) == <<a[1] + b[1], a[2] + b[2]>>

\* the second loop over the sample: the evidence of rows lo..hi added up
\* (the range is halved to keep the evaluation shallow)
RECURSIVE evidence(_, _, _)
evidence(sample, lo, hi) ==
    IF lo > hi THEN <<0, 0>>
    ELSE IF lo = hi THEN evidence_of(sample[lo])
    ELSE add_evidence(evidence(sample, lo, (lo + hi) \div 2),
                      evidence(sample, (lo + hi) \div 2 + 1, hi))

\* dayfirst_evidence > monthfirst_evidence
verdict(ev) == IF ev[1] > ev[2] THEN "True" ELSE "False"

\* vote with the two counters reset inside the loop: only the last row counts
vote_last_row(sample) == verdict(evidence(sample, Len(sample), Len(sample)))

\* the fall-back verdict of the numeric-token heuristic
vote(sample) == verdict(evidence(sample, 1, Len(sample)))

\* "If only one format produces ordered dates, use that"
decide(dayfirst_ordered, monthfirst_ordered) ==
    IF dayfirst_ordered = "raise" THEN "raise"
    ELSE IF monthfirst_ordered = "raise" THEN "raise"
    ELSE IF dayfirst_ordered = "True" /\ monthfirst_ordered = "False" THEN "dayfirst"
    ELSE IF monthfirst_ordered = "True" /\ dayfirst_ordered = "False" THEN "monthfirst"
    ELSE "inconclusive"

\* the order-based step on the two filtered lists: "empty" when a mode
\* parsed nothing, else what decide gives.  is_ordered(monthfirst_valid) runs
\* only after is_ordered(dayfirst_valid) returned; a raise in either escapes.
tier1_of(dayfirst_valid, monthfirst_valid) ==
    IF dayfirst_valid = <<>> \/ monthfirst_valid = <<>> THEN "empty"
    ELSE decide(is_ordered(dayfirst_valid), is_ordered(monthfirst_valid))

tier1(sample) == tier1_of(parsed_valid(sample, TRUE), parsed_valid(sample, FALSE))

\* after_tier1 without the early return: an empty mode falls through to the vote
after_tier1_fallthrough(t, sample) ==
    CASE t = "raise" -> "raise"
      [] t = "dayfirst" -> "True"
      [] t = "monthfirst" -> "False"
      [] OTHER -> vote(sample)

\* what detect_date_format returns once the order-based step is done
after_tier1(t, sample) ==
    CASE t = "empty" -> "False"
      [] t = "raise" -> "raise"
      [] t = "dayfirst" -> "True"
      [] t = "monthfirst" -> "False"
      [] OTHER -> vote(sample)

\* detect_on with the guard len(sample) < 1
detect_on_one(sample) ==
    IF Len(sample) < 1 THEN "False" ELSE after_tier1(tier1(sample), sample)

\* the guard on the sample size, then the tiers
detect_on(sample) ==
    IF Len(sample) < 2 THEN "False" ELSE after_tier1(tier1(sample), sample)

\* outcome "True" (day-first) / "False" (month-first) / "raise"
detect_date_format(col) == detect_on(detect_sample(col))

----------------------------------------------------------------------------
(* The two functions applied to a column *)

InitCore ==
    /\ column \in Columns
    /\ origin = column
    /\ valid = "none"
    /\ detected = "none"

Validate ==
    /\ valid = "none"
    /\ valid' = is_valid_time_series(column)
    /\ UNCHANGED <<column, origin, detected, appVars>>

Detect ==
    /\ detected = "none"
    /\ detected' = detect_date_format(column)
    /\ UNCHANGED <<column, origin, valid, appVars>>

\* the upload workflow at rest
IdleApp ==
    /\ uploaded_files = <<>>
    /\ force_dayfirst = FALSE
    /\ dataframes = <<>>
    /\ event = "start"
    /\ mixed_tz_raises = TRUE

Init == InitCore /\ IdleApp

Next == Validate \/ Detect

Spec == Init /\ [][Next]_vars

----------------------------------------------------------------------------
(* Reference notions the properties below are stated with.  They are       *)
(* written from the wording of the properties (sets, counts, quantifiers), *)
(* not from the loops of utils.py.                                         *)

\* the entries of seq that satisfy Keep, in their original order
RefFilter(seq, Keep(_)) ==
    LET idx == {i \in 1..Len(seq) : Keep(seq[i])}
        rank(i) == Cardinality({x \in idx : x <= i})
    IN  [j \in 1..Cardinality(idx) |-> seq[CHOOSE i \in idx : rank(i) = j]]

RefNonNull(col) == RefFilter(col, LAMBDA c : c # NULL)

\* the first min(k, non-null count) non-null entries, in original order
RefSample(col, k) ==
    LET nn == RefNonNull(col)
    IN  [j \in 1..Min(k, Len(nn)) |-> nn[j]]

\* a mode's sequence: the sample's parsed values, failures dropped
RefParsed(sample, dayfirst) ==
    LET all == [j \in 1..Len(sample) |-> parse(sample[j], dayfirst)]
    IN  RefFilter(all, LAMBDA r : r.ok)

\* earlier <= later; a pair of one aware and one naive value satisfies nothing
RefLeq(a, b) == a.aware = b.aware /\ Ordinal(a) <= Ordinal(b)

\* every consecutive pair satisfies earlier <= later
RefOrdered(seq) == \A i \in 1..(Len(seq) - 1) : RefLeq(seq[i], seq[i + 1])

\* the numeric-token vote as a count over the sampled texts
RefVote(sample) ==
    LET two == {j \in 1..Len(sample) : Len(findall_digits(sample[j])) >= 2}
        first(j) == findall_digits(sample[j])[1]
        second(j) == findall_digits(sample[j])[2]
        strong_df == {j \in two : first(j) > 12}
        strong_mf == {j \in two : first(j) <= 12 /\ second(j) > 12}
        weak_df == {j \in two : first(j) <= 12 /\ second(j) <= 12 /\ first(j) > second(j)}
    IN  IF 2 * Cardinality(strong_df) + Cardinality(weak_df) > 2 * Cardinality(strong_mf)
        THEN "True" ELSE "False"

\* the validator's verdict as the property words it
RefValid(col) ==
    LET n == Len(col)
        S == RefSample(col, 5)
        successes == Cardinality({j \in 1..Len(S) : parse(S[j], FALSE).ok})
    IN  IF n = 0 THEN "False"
        ELSE IF 5 * Len(RefNonNull(col)) < 4 * n THEN "False"
        ELSE IF Len(S) = 5 THEN (IF successes >= 4 THEN "True" ELSE "False")
        ELSE IF Len(S) >= 1 /\ successes = Len(S) THEN "True" ELSE "False"

----------------------------------------------------------------------------
(* Properties of the two functions *)

\* C1: for every column both functions return a boolean and never raise.
C1_Totality ==
    /\ valid \in {"none", "True", "False"}
    /\ detected \in {"none", "True", "False"}

\* C2: is_valid_time_series agrees with the reference: false for an empty
\* column, false below 80% non-null (exactly 80% passes), otherwise true iff
\* at least 4 of a 5-entry sample parse, or all of a 1..4-entry sample.
C2_ValidatorReference == valid # "none" => valid = RefValid(column)

\* a 5-entry sample with exactly one failure, and an unparseable entry
\* beyond the sample: accepted
C2_Witness ==
    /\ valid = "True"
    /\ Len(column) = 6
    /\ column[5] = "abc"
    /\ column[6] = "abc"

\* C3: when both mode sequences are non-empty and exactly one is ordered,
\* detect_date_format returns true if the day-first one is the ordered one
\* and false if the month-first one is.
C3_Tier1Decides ==
    detected # "none" =>
        LET s == RefSample(column, 50)
            df == RefParsed(s, TRUE)
            mf == RefParsed(s, FALSE)
        IN  (Len(s) >= 2 /\ df # <<>> /\ mf # <<>> /\ RefOrdered(df) # RefOrdered(mf))
                => detected = (IF RefOrdered(df) THEN "True" ELSE "False")

\* C4: when the order-based step is inconclusive (a sample of at least two
\* entries, both mode sequences non-empty, and both ordered or both
\* unordered), the verdict is the numeric-token vote.
C4_InconclusiveIsVote ==
    detected # "none" =>
        LET s == RefSample(column, 50)
            df == RefParsed(s, TRUE)
            mf == RefParsed(s, FALSE)
        IN  (Len(s) >= 2 /\ df # <<>> /\ mf # <<>> /\ RefOrdered(df) = RefOrdered(mf))
                => detected = RefVote(s)

\* some mode parsed nothing out of a sample of at least two entries
SomeModeEmpty(col) ==
    LET s == RefSample(col, 50)
    IN  /\ Len(s) >= 2
        /\ (RefParsed(s, TRUE) = <<>> \/ RefParsed(s, FALSE) = <<>>)

\* C5 as stated: when either mode parses nothing out of a sample of at
\* least two entries, the verdict is the numeric-token vote.
C5_ZeroValidFallsThrough ==
    (detected # "none" /\ SomeModeEmpty(column))
        => detected = RefVote(RefSample(column, 50))

\* C5 as amended: when either mode parses nothing out of a sample of at
\* least two entries, detect_date_format returns false at once, whatever
\* the numeric tokens are.
C5_ZeroValidReturnsFalse ==
    (detected # "none" /\ SomeModeEmpty(column)) => detected = "False"

\* no text parses, every first number exceeds 12, and the verdict is false
C5_Witness ==
    /\ detected = "False"
    /\ SomeModeEmpty(column)
    /\ RefVote(RefSample(column, 50)) = "True"

\* a date text in year-month-day form: "YYYY-MM-DD", a real calendar date
IsIsoDate(c) ==
    /\ c # NULL
    /\ LET toks == Lex(c)
       IN  /\ Len(toks) = 5
           /\ toks[2] = P("-") /\ toks[4] = P("-")
           /\ toks[1].t = "d" /\ toks[3].t = "d" /\ toks[5].t = "d"
           /\ toks[1].n >= 1000
           /\ toks[3].n \in 1..12
           /\ toks[5].n \in 1..DaysIn(toks[1].n, toks[3].n)

IsoOrdinal(c) == LET toks == Lex(c) IN (toks[1].n * 12 + toks[3].n) * 31 + toks[5].n

StrictlyIncreasingIso(col) ==
    /\ Len(col) >= 2
    /\ \A i \in 1..Len(col) : IsIsoDate(col[i])
    /\ \A i \in 1..(Len(col) - 1) : IsoOrdinal(col[i]) < IsoOrdinal(col[i + 1])

\* C6: for a column of at least two strictly increasing ISO dates
\* detect_date_format returns false, also when both interpretations are
\* ordered and the numeric-token vote gives the verdict.
C6_IsoIsMonthFirst ==
    (detected # "none" /\ StrictlyIncreasingIso(column)) => detected = "False"

\* C7: a column with fewer than two non-null entries yields false, whatever
\* its one value is.
C7_FewerThanTwo ==
    (detected # "none" /\ Len(RefNonNull(column)) < 2) => detected = "False"

\* a single text whose first number exceeds 12: false all the same
C7_Witness ==
    /\ detected = "False"
    /\ Len(RefNonNull(column)) = 1
    /\ Len(findall_digits(RefNonNull(column)[1])) >= 2
    /\ findall_digits(RefNonNull(column)[1])[1] > 12

----------------------------------------------------------------------------
(* Row order: the same rows given in two orders *)

ShuffleColumns ==
    UNION {[1..k -> ShuffleText] : k \in 2..MaxShuffleLen}

\* the columns holding the rows of col in some order
RowOrders(col) ==
    {[i \in 1..Len(col) |-> col[p[i]]] :
        p \in {q \in [1..Len(col) -> 1..Len(col)] :
                  \A i, j \in 1..Len(col) : q[i] = q[j] => i = j}}

InitShuffle ==
    /\ origin \in ShuffleColumns
    /\ column \in RowOrders(origin)
    /\ valid = "none"
    /\ detected = "none"
    /\ IdleApp

ShuffleSpec == InitShuffle /\ [][Next]_vars

\* C8: the outcome of the order-based step depends on the order of the rows
\* (some column that is ordered under exactly one interpretation has a
\* permutation that takes another branch), while the numeric-token vote over
\* the same rows does not.
C8_VoteIgnoresRowOrder ==
    /\ vote(detect_sample(column)) = vote(detect_sample(origin))
    /\ (detected # "none" /\ tier1(detect_sample(column)) = "inconclusive")
           => detected = vote(detect_sample(origin))

\* the original rows are ordered under exactly one interpretation and the
\* order-based step decides; on the permuted rows, given to
\* detect_date_format, it is inconclusive or decides the other way
C8_Witness ==
    /\ detected # "none"
    /\ RefOrdered(RefParsed(origin, TRUE)) # RefOrdered(RefParsed(origin, FALSE))
    /\ tier1(detect_sample(origin)) \in {"dayfirst", "monthfirst"}
    /\ tier1(detect_sample(column)) \in {"dayfirst", "monthfirst", "inconclusive"}
    /\ tier1(detect_sample(column)) # tier1(detect_sample(origin))

----------------------------------------------------------------------------
(* main.py: the upload workflow.  Every user interaction reruns the script *)
(* from the top with the widgets' current values.                          *)

\* first columns of the uploaded tables
ColIso == <<"2023-01-01", "2023-02-01">>
ColAmbiguous == <<"01/02/2023", "02/01/2023">>
ColText == <<"abc", "abc">>
ColSparse == <<"2023-01-01", NULL>>
ColBadTail == Repeat("2023-01-01", ValidSample) \o <<"abc">>
ColMixedTz == <<"2023-01-01", "2023-01-02 00:00+00:00">>

\* an uploaded file: its name, whether pandas can read it, its first column
File(name, col) == [name |-> name, readable |-> TRUE, col |-> col]
Unreadable(name) == [name |-> name, readable |-> FALSE, col |-> <<>>]

Files ==
    {File("a.csv", c) : c \in {ColIso, ColAmbiguous, ColSparse, ColBadTail, ColMixedTz}}
        \cup {File("b.csv", c) : c \in {ColAmbiguous, ColText}}
        \cup {Unreadable("b.csv")}

NoTables == <<>>

\* pd.to_datetime(col, dayfirst=...) raises on a value it cannot parse and,
\* in the pandas versions that do, on a mix of aware and naive values
some_raise(values, strict_tz) ==
    \/ \E i \in 1..Len(values) : ~values[i].ok
    \/ strict_tz /\ \E i, j \in 1..Len(values) : values[i].aware # values[j].aware

to_datetime_raises(col, dayfirst, strict_tz) ==
    some_raise(parsed_result(dropna(col), dayfirst), strict_tz)

\* the table kept for a file: its data with the first column converted
\* under the chosen mode
Table(file, dayfirst) == [src |-> file.col, dayfirst |-> dayfirst]

\* convert_and_store with the failure of pd.to_datetime ignored
convert_and_store_unchecked(store, file, detected_dayfirst, strict_tz) ==
    IF detected_dayfirst = "raise" THEN store
    ELSE (file.name :> Table(file, detected_dayfirst = "True")) @@ store

\* the end of the loop body: the full column parsed under the chosen mode
\* and the table stored, or the exception caught and the file rejected
convert_and_store(store, file, detected_dayfirst, strict_tz) ==
    IF detected_dayfirst = "raise" THEN store
    ELSE IF to_datetime_raises(file.col, detected_dayfirst = "True", strict_tz)
         THEN store
    ELSE (file.name :> Table(file, detected_dayfirst = "True")) @@ store

\* process_file without the test "file.name not in st.session_state.dataframes"
process_file_overwrite(store, file, force, strict_tz) ==
    IF ~file.readable THEN store
    ELSE IF is_valid_time_series(file.col) # "True" THEN store
    ELSE convert_and_store(store, file,
                           IF force THEN "True" ELSE detect_date_format(file.col),
                           strict_tz)

\* the body of the loop over uploaded_files for one file
process_file(store, file, force, strict_tz) ==
    IF file.name \in DOMAIN store THEN store
    ELSE IF ~file.readable THEN store
    ELSE IF is_valid_time_series(file.col) # "True" THEN store
    ELSE convert_and_store(store, file,
                           IF force THEN "True" ELSE detect_date_format(file.col),
                           strict_tz)

\* "for file in uploaded_files"
RECURSIVE process_uploads(_, _, _, _)
process_uploads(store, files, force, strict_tz) ==
    IF files = <<>> THEN store
    ELSE process_uploads(process_file(store, Head(files), force, strict_tz),
                         Tail(files), force, strict_tz)

\* the user adds a file to the uploader: the script reruns
AddFile(f) ==
    /\ Len(uploaded_files) < MaxUploads
    /\ uploaded_files' = Append(uploaded_files, f)
    /\ dataframes' = process_uploads(dataframes, uploaded_files', force_dayfirst,
                                     mixed_tz_raises)
    /\ event' = "upload"
    /\ UNCHANGED <<force_dayfirst, mixed_tz_raises, coreVars>>

\* the user removes a file from the uploader: the script reruns
RemoveFile(i) ==
    /\ i \in 1..Len(uploaded_files)
    /\ uploaded_files' = SubSeq(uploaded_files, 1, i - 1)
                            \o SubSeq(uploaded_files, i + 1, Len(uploaded_files))
    /\ dataframes' = process_uploads(dataframes, uploaded_files', force_dayfirst,
                                     mixed_tz_raises)
    /\ event' = "remove"
    /\ UNCHANGED <<force_dayfirst, mixed_tz_raises, coreVars>>

\* the user flips the checkbox: the script reruns
ToggleForce ==
    /\ force_dayfirst' = ~force_dayfirst
    /\ dataframes' = process_uploads(dataframes, uploaded_files, force_dayfirst',
                                     mixed_tz_raises)
    /\ event' = "toggle"
    /\ UNCHANGED <<uploaded_files, mixed_tz_raises, coreVars>>

\* the user clicks Clear Data: the script reruns, processes the uploads,
\* empties the store and calls st.rerun(), which runs the script once more
ClearData ==
    /\ dataframes' = process_uploads(NoTables, uploaded_files, force_dayfirst,
                                     mixed_tz_raises)
    /\ event' = "clear"
    /\ UNCHANGED <<uploaded_files, force_dayfirst, mixed_tz_raises, coreVars>>

InitApp ==
    /\ uploaded_files = <<>>
    /\ force_dayfirst = FALSE
    /\ dataframes = NoTables
    /\ event = "start"
    /\ mixed_tz_raises \in BOOLEAN
    /\ column = <<>>
    /\ origin = <<>>
    /\ valid = "none"
    /\ detected = "none"

NextApp ==
    \/ \E f \in Files : AddFile(f)
    \/ \E i \in 1..MaxUploads : RemoveFile(i)
    \/ ToggleForce
    \/ ClearData

AppSpec == InitApp /\ [][NextApp]_vars

----------------------------------------------------------------------------
(* Properties of the upload workflow *)

\* every non-null value of the column parses under the mode
RefAllParse(col, dayfirst) ==
    \A i \in 1..Len(col) : col[i] # NULL => parse(col[i], dayfirst).ok

\* the column holds both an aware and a naive value under the mode
RefMixedTz(col, dayfirst) ==
    \E i, j \in 1..Len(col) :
        /\ col[i] # NULL /\ col[j] # NULL
        /\ parse(col[i], dayfirst).aware # parse(col[j], dayfirst).aware

\* C9: every table in the store belongs to a file whose first column the
\* validator accepted and whose whole first column parsed without error; a
\* file that cannot be read, that the validator rejects or whose full-column
\* parse fails is never in the store.
C9_IngestionSafety ==
    \A n \in DOMAIN dataframes :
        /\ RefValid(dataframes[n].src) = "True"
        /\ RefAllParse(dataframes[n].src, dataframes[n].dayfirst)
        /\ mixed_tz_raises => ~RefMixedTz(dataframes[n].src, dataframes[n].dayfirst)

\* a file whose 5-entry sample passes the validator but whose sixth value
\* does not parse sits in the uploader, rejected, beside an accepted file
C9_Witness ==
    /\ "b.csv" \in DOMAIN dataframes
    /\ "a.csv" \notin DOMAIN dataframes
    /\ RefValid(ColBadTail) = "True"
    /\ \E i \in 1..Len(uploaded_files) : uploaded_files[i] = File("a.csv", ColBadTail)

\* the mode a file is parsed under when it is processed
RefMode(f, force) == IF force THEN "True" ELSE detect_date_format(f.col)

\* the file passes every step of the processing
RefAccepted(f, force, strict_tz) ==
    /\ f.readable
    /\ RefValid(f.col) = "True"
    /\ RefMode(f, force) # "raise"
    /\ ~to_datetime_raises(f.col, RefMode(f, force) = "True", strict_tz)

\* the store that processing the uploaded files from an empty store gives:
\* for each name, the table of the first file of that name that passes
RefFromScratch(files, force, strict_tz) ==
    LET ok == {i \in 1..Len(files) : RefAccepted(files[i], force, strict_tz)}
        firstOf(n) == CHOOSE i \in ok :
                          /\ files[i].name = n
                          /\ \A j \in ok : files[j].name = n => i <= j
    IN  [n \in {files[i].name : i \in ok} |->
            Table(files[firstOf(n)], RefMode(files[firstOf(n)], force) = "True")]

\* C10: once a file name is in the store, every rerun that is not a Clear
\* Data click leaves its table as it is, whatever the checkbox and the
\* uploader now hold; a Clear Data click empties the store, and the files
\* still uploaded are processed from scratch with the current checkbox.
C10_StoreStableUntilClear ==
    [][/\ event' # "clear" =>
            \A n \in DOMAIN dataframes :
                n \in DOMAIN dataframes' /\ dataframes'[n] = dataframes[n]
       /\ event' = "clear" =>
            dataframes' = RefFromScratch(uploaded_files', force_dayfirst',
                                         mixed_tz_raises')]_vars

\* the checkbox was just ticked while a file detected as month-first is
\* both in the uploader and in the store: its table is still month-first
C10_Witness ==
    /\ event = "toggle"
    /\ force_dayfirst
    /\ \E i \in 1..Len(uploaded_files) :
          /\ uploaded_files[i].name \in DOMAIN dataframes
          /\ dataframes[uploaded_files[i].name].src = uploaded_files[i].col
          /\ ~dataframes[uploaded_files[i].name].dayfirst

====
